---- MODULE Spec2Model ----
(***************************************************************************)
(* A model of bibtex_processor.py: the DOI normalizer (normalize_doi), the *)
(* record standardizer (the entry loop of standardize_bibtex_file) and the *)
(* cross-file deduplicator (the two loops of remove_duplicates_by_doi).    *)
(*                                                                         *)
(* Python strings are sequences of one-character strings, so that strip(), *)
(* lower() and the regular expression are computed, not assumed.  A dict   *)
(* is a sequence of <<key, value>> pairs in insertion order.  None is the  *)
(* one-element sequence <<"None">>, which is no string of characters.      *)
(*                                                                         *)
(* bibtexparser (the parser and the writer of .bib text) is a library      *)
(* outside the repository: the model starts each operation at the list of  *)
(* entries the parser returned and ends it at the list handed to the       *)
(* writer.  The main flow (SpecPipe) runs the calls of the example of use  *)
(* over a file system whose files may be missing or unreadable.            *)
(***************************************************************************)
EXTENDS Integers, Sequences, FiniteSets, TLC

VARIABLES
    pc,                    \* position of the running operation
    log,                   \* diagnostics emitted through logging, in order
    doi_string,            \* normalize_doi: the argument of the call
    doi_ret,               \* normalize_doi: value returned by the first call
    doi_ret2,              \* normalize_doi: value returned for doi_ret
    entries,               \* standardize: bib_database.entries
    si,                    \* standardize: index of the next entry of the loop
    processed_ids,         \* standardize: IDs already standardized
    standardized_entries,  \* standardize: the list built by the loop
    standardized_db,       \* standardize: entries handed to the writer
    db_x,                  \* deduplicate: db_x.entries
    db_y,                  \* deduplicate: db_y.entries
    yi,                    \* deduplicate: index of the next entry of db_y
    xi,                    \* deduplicate: index of the next entry of db_x
    dois_y,                \* deduplicate: DOIs collected from db_y
    processed_ids_x,       \* deduplicate: IDs of db_x already seen
    unique_entries_x,      \* deduplicate: the entries kept
    removed_count,         \* deduplicate: number of entries removed
    final_db,              \* deduplicate: entries handed to the writer
    files,                 \* pipeline: what each path of the file system holds
    unwritable,            \* pipeline: paths that cannot be opened for writing
    stage                  \* pipeline: number of the next call of the main flow

normVars == <<doi_string, doi_ret, doi_ret2>>
stdVars == <<entries, si, processed_ids, standardized_entries, standardized_db>>
dedupVars == <<db_x, db_y, yi, xi, dois_y, processed_ids_x, unique_entries_x,
               removed_count, final_db>>
pipeVars == <<files, unwritable, stage>>
vars == <<pc, log, normVars, stdVars, dedupVars, pipeVars>>

----------------------------------------------------------------------------
(* Characters and strings *)

None == <<"None">>

UpperAlpha == <<"A","B","C","D","E","F","G","H","I","J","K","L","M",
                "N","O","P","Q","R","S","T","U","V","W","X","Y","Z">>
LowerAlpha == <<"a","b","c","d","e","f","g","h","i","j","k","l","m",
                "n","o","p","q","r","s","t","u","v","w","x","y","z">>
AlphaLen == Len(UpperAlpha)

Range(s) == {s[i] : i \in 1..Len(s)}
UpperChars == Range(UpperAlpha)
LowerChars == Range(LowerAlpha)

DigitChars == {"0","1","2","3","4","5","6","7","8","9"}

\* str.strip() with no argument removes these.
SpaceChars == {" ", "\t", "\n", "\r", "\f"}

\* The character class [-._;()/:A-Z0-9] under re.IGNORECASE.
DoiPunct == {"-", ".", "_", ";", "(", ")", "/", ":"}
DoiChars == DoiPunct \cup UpperChars \cup LowerChars \cup DigitChars

\* The bounds {4,9} of the quantifier \d{4,9}.
MinDigits == 4
MaxDigits == 9

SetMin(S) == CHOOSE m \in S : \A n \in S : m <= n
SetMax(S) == CHOOSE m \in S : \A n \in S : m >= n

LowerChar(c) ==
    IF c \in UpperChars
    THEN LowerAlpha[CHOOSE i \in 1..AlphaLen : UpperAlpha[i] = c]
    ELSE c

\* str.lower()
StrLower(s) == [i \in 1..Len(s) |-> LowerChar(s[i])]

\* str.strip()
StrStrip(s) ==
    LET keep == {i \in 1..Len(s) : s[i] \notin SpaceChars}
    IN IF keep = {} THEN <<>> ELSE SubSeq(s, SetMin(keep), SetMax(keep))

\* Python truthiness of a str-or-None value: None and '' are false.
Truthy(v) == v # None /\ v # <<>>

\* Length of the longest run of characters of class starting at position p.
RECURSIVE RunLen(_, _, _)
RunLen(s, p, class) ==
    IF p > Len(s) \/ s[p] \notin class THEN 0 ELSE 1 + RunLen(s, p + 1, class)

\* One attempt of the pattern 10\.\d{4,9}/[-._;()/:A-Z0-9]+ at position i:
\* the position of the last character matched, or 0.  The quantifiers are
\* greedy: the longest digit run that a '/' follows, then the whole run of
\* class characters.
MatchEnd(s, i) ==
    IF i + 2 > Len(s) \/ SubSeq(s, i, i + 2) # <<"1", "0", ".">> THEN 0
    ELSE LET n == RunLen(s, i + 3, DigitChars)
             ks == {k \in MinDigits..MaxDigits :
                      k <= n /\ i + 3 + k <= Len(s) /\ s[i + 3 + k] = "/"}
         IN IF ks = {} THEN 0
            ELSE LET k == SetMax(ks)
                     r == RunLen(s, i + 4 + k, DoiChars)
                 IN IF r = 0 THEN 0 ELSE i + 3 + k + r

\* re.search: the match at the leftmost position where the pattern matches,
\* as <<first, last>>; <<0, 0>> when there is none.
ReSearch(s) ==
    LET starts == {i \in 1..Len(s) : MatchEnd(s, i) > 0}
    IN IF starts = {} THEN <<0, 0>>
       ELSE <<SetMin(starts), MatchEnd(s, SetMin(starts))>>

\* Mutant: the .lower() of line 21 forgotten.
normalize_doi_nolower(d) ==
    IF ~Truthy(d) THEN <<>>
    ELSE LET s == StrStrip(d)
             m == ReSearch(s)
         IN IF m[1] > 0 THEN SubSeq(s, m[1], m[2]) ELSE s

\* Mutant: the match returned without its last character.
normalize_doi_shortmatch(d) ==
    IF ~Truthy(d) THEN <<>>
    ELSE LET s == StrLower(StrStrip(d))
             m == ReSearch(s)
         IN IF m[1] > 0 THEN SubSeq(s, m[1], m[2] - 1) ELSE s

normalize_doi(d) ==
    IF ~Truthy(d) THEN <<>>
    ELSE LET s == StrLower(StrStrip(d))
             m == ReSearch(s)
         IN IF m[1] > 0 THEN SubSeq(s, m[1], m[2]) ELSE s

\* The logging.warning of normalize_doi is emitted on the fallback path.
NormalizeWarns(d) ==
    Truthy(d) /\ ReSearch(StrLower(StrStrip(d)))[1] = 0

----------------------------------------------------------------------------
(* Diagnostics *)

Diag(kind, what) == [kind |-> kind, what |-> what]

LogWith(l, cond, d) == IF cond THEN Append(l, d) ELSE l

----------------------------------------------------------------------------
(* normalize_doi called on a string, and again on what it returned *)

\* Bounds of the strings normalize_doi is called on.
MaxDigitRun == 10
MaxPad == 1

DigitCycle == <<"1","2","3","4","5","6","7","8","9","0">>
Digits(n) == [i \in 1..n |-> DigitCycle[((i - 1) % 10) + 1]]
Pad(n) == [i \in 1..n |-> " "]

\* What may stand before the "10." of the candidate: nothing, a resolver URL,
\* a label, a digit, a cut-off prefix, an earlier complete identifier.
NormPrefixes ==
    { <<>>,
      <<"h","t","t","p","s",":","/","/","d","o","i",".","o","r","g","/">>,
      <<"D","O","I",":"," ">>,
      <<"1">>,
      <<"1","0",".">>,
      <<"1","0",".","5","5","5","5","/","z","z"," ">> }

\* What follows the digits: nothing, a bare slash, a slash and a suffix.
NormTails ==
    { <<>>,
      <<"/">>,
      <<"/","a","B","-","1">>,
      <<"/","J",".","x","(","2",")","_",";",":","Q">> }

\* What follows the candidate.
NormPosts ==
    { <<>>, <<"?">>, <<" ","x">>, <<"c">>, <<"/","z">>,
      <<"}">> }

NormInputs ==
    { Pad(l) \o pre \o <<"1", "0", ".">> \o Digits(n) \o tail \o post \o Pad(t) :
        l \in 0..MaxPad, t \in {0, MaxPad}, pre \in NormPrefixes,
        n \in (MinDigits - 2)..MaxDigitRun, tail \in NormTails,
        post \in NormPosts }
    \cup { None, <<>>, Pad(MaxPad), <<" ","N","o","t"," ","A"," ","D","o","i"," ">> }

NormIdle == /\ doi_string = None /\ doi_ret = None /\ doi_ret2 = None

StdIdle ==
    /\ entries = <<>> /\ si = 0 /\ processed_ids = {}
    /\ standardized_entries = <<>> /\ standardized_db = None

DedupIdle ==
    /\ db_x = <<>> /\ db_y = <<>> /\ yi = 0 /\ xi = 0 /\ dois_y = {}
    /\ processed_ids_x = {} /\ unique_entries_x = <<>> /\ removed_count = 0
    /\ final_db = None

PipeIdle == /\ files = <<>> /\ unwritable = {} /\ stage = 0

InitNorm ==
    /\ pc = "norm_call"
    /\ log = <<>>
    /\ doi_string \in NormInputs
    /\ doi_ret = None /\ doi_ret2 = None
    /\ StdIdle /\ DedupIdle /\ PipeIdle

\* normalize_doi(doi_string)
NormCall ==
    /\ pc = "norm_call"
    /\ doi_ret' = normalize_doi(doi_string)
    /\ log' = LogWith(log, NormalizeWarns(doi_string),
                      Diag("doi_not_standard", StrLower(StrStrip(doi_string))))
    /\ pc' = "norm_ret"
    /\ UNCHANGED <<pipeVars, doi_string, doi_ret2, stdVars, dedupVars>>

\* normalize_doi applied to the value it returned
NormAgain ==
    /\ pc = "norm_ret"
    /\ doi_ret2' = normalize_doi(doi_ret)
    /\ log' = LogWith(log, NormalizeWarns(doi_ret),
                      Diag("doi_not_standard", StrLower(StrStrip(doi_ret))))
    /\ pc' = "norm_done"
    /\ UNCHANGED <<pipeVars, doi_string, doi_ret, stdVars, dedupVars>>

NextNorm == NormCall \/ NormAgain

SpecNorm == InitNorm /\ [][NextNorm]_vars

----------------------------------------------------------------------------
(* Claims about normalize_doi, checked under SpecNorm *)

\* d has the form '10.' + 4 to 9 digits + '/' + a non-empty run of letters,
\* digits and - . _ ; ( ) / :
IsDoiForm(d) ==
    /\ Len(d) >= 3 /\ SubSeq(d, 1, 3) = <<"1", "0", ".">>
    /\ \E k \in MinDigits..MaxDigits :
         /\ Len(d) >= k + 5
         /\ \A q \in 4..(3 + k) : d[q] \in DigitChars
         /\ d[4 + k] = "/"
         /\ \A q \in (5 + k)..Len(d) : d[q] \in DoiChars

\* The substrings of s of that form, as <<first, last>> positions.
DoiFormsIn(s) ==
    {ij \in (1..Len(s)) \X (1..Len(s)) :
        ij[1] <= ij[2] /\ s[ij[1]] = "1" /\ IsDoiForm(SubSeq(s, ij[1], ij[2]))}

\* ij is the leftmost substring of that form and no character of the run
\* follows it.
LeftmostMaximal(s, ij) ==
    /\ ij \in DoiFormsIn(s)
    /\ \A other \in DoiFormsIn(s) : other[1] >= ij[1]
    /\ ij[2] = Len(s) \/ s[ij[2] + 1] \notin DoiChars

\* C2 as stated: whatever substring d of s has the identifier form,
\* normalize_doi(s) is d lowercased.
C2_AnySubstringReturned ==
    (pc # "norm_call" /\ doi_string # None) =>
        \A ij \in DoiFormsIn(doi_string) :
            doi_ret = StrLower(SubSeq(doi_string, ij[1], ij[2]))

\* C2 amended: when d is the leftmost substring of s of the identifier form
\* and is not followed in s by a further character of the run, then
\* normalize_doi(s) is exactly d lowercased, whatever else precedes or
\* follows d.
C2_LeftmostLongestReturned ==
    (pc # "norm_call" /\ doi_string # None) =>
        \A ij \in DoiFormsIn(doi_string) :
            LeftmostMaximal(doi_string, ij) =>
                doi_ret = StrLower(SubSeq(doi_string, ij[1], ij[2]))

\* A URL-like prefix and a suffix surround an identifier with capitals, and
\* the lowercased identifier was returned.
C2_Witness ==
    /\ pc = "norm_ret" /\ doi_string # None
    /\ \E ij \in DoiFormsIn(doi_string) :
         /\ LeftmostMaximal(doi_string, ij)
         /\ ij[1] > 3 /\ ij[2] < Len(doi_string)
         /\ doi_string[ij[2] + 1] \notin SpaceChars
         /\ SubSeq(doi_string, ij[1], ij[2]) # doi_ret
         /\ doi_ret = StrLower(SubSeq(doi_string, ij[1], ij[2]))

\* C3: normalize_doi is idempotent: normalize_doi of the value returned is
\* that value, for a matching, a non-matching, an empty and an absent input.
C3_Idempotent ==
    pc = "norm_done" => doi_ret2 = doi_ret

\* The fallback path changed the input (trimmed, lowercased), and the second
\* call was made on the result.
C3_Witness ==
    /\ pc = "norm_done"
    /\ NormalizeWarns(doi_string)
    /\ doi_ret # <<>> /\ doi_ret # doi_string

----------------------------------------------------------------------------
(* Dicts: sequences of <<key, value>> pairs, keys distinct, insertion order *)

DictHas(d, k) == \E i \in 1..Len(d) : d[i][1] = k

\* d.get(k, default)
DictGet(d, k, default) ==
    IF DictHas(d, k) THEN d[CHOOSE i \in 1..Len(d) : d[i][1] = k][2]
    ELSE default

\* d[k] = v: a present key keeps its place, a new key goes last.
DictSet(d, k, v) ==
    IF DictHas(d, k)
    THEN [i \in 1..Len(d) |-> IF d[i][1] = k THEN <<k, v>> ELSE d[i]]
    ELSE Append(d, <<k, v>>)

DictKeys(d) == [i \in 1..Len(d) |-> d[i][1]]

K_ID == <<"I","D">>
K_ENTRYTYPE == <<"E","N","T","R","Y","T","Y","P","E">>
K_doi == <<"d","o","i">>
K_title == <<"t","i","t","l","e">>
K_abstract == <<"a","b","s","t","r","a","c","t">>
K_keywords == <<"k","e","y","w","o","r","d","s">>
K_author == <<"a","u","t","h","o","r">>
K_year == <<"y","e","a","r">>
K_publisher == <<"p","u","b","l","i","s","h","e","r">>
K_journal == <<"j","o","u","r","n","a","l">>
K_booktitle == <<"b","o","o","k","t","i","t","l","e">>
K_pages == <<"p","a","g","e","s">>
K_volume == <<"v","o","l","u","m","e">>
K_number == <<"n","u","m","b","e","r">>

----------------------------------------------------------------------------
(* standardize_bibtex_file: the loop over bib_database.entries *)

essential_fields ==
    <<K_doi, K_title, K_abstract, K_keywords, K_author, K_year, K_publisher,
      K_journal, K_booktitle, K_pages, K_volume, K_number>>

\* {k.lower(): v for k, v in entry.items() if k not in ['ID', 'ENTRYTYPE']}
RECURSIVE LowerKeys(_, _)
LowerKeys(items, acc) ==
    IF items = <<>> THEN acc
    ELSE LET k == Head(items)[1]
             v == Head(items)[2]
         IN LowerKeys(Tail(items),
                      IF k \in {K_ID, K_ENTRYTYPE} THEN acc
                      ELSE DictSet(acc, StrLower(k), v))

\* for field in essential_fields: if field not in data: data[field] = ''
RECURSIVE EnsureFields(_, _)
EnsureFields(data, fields) ==
    IF fields = <<>> THEN data
    ELSE EnsureFields(IF DictHas(data, Head(fields)) THEN data
                      ELSE DictSet(data, Head(fields), <<>>),
                      Tail(fields))

\* Mutant: booktitle replaces journal whenever booktitle is set.
Consolidate_always(data) ==
    IF Truthy(DictGet(data, K_booktitle, None))
    THEN DictSet(data, K_journal, DictGet(data, K_booktitle, None))
    ELSE data

\* if not data.get('journal') and data.get('booktitle'):
\*     data['journal'] = data['booktitle']
Consolidate(data) ==
    IF ~Truthy(DictGet(data, K_journal, None))
       /\ Truthy(DictGet(data, K_booktitle, None))
    THEN DictSet(data, K_journal, DictGet(data, K_booktitle, None))
    ELSE data

\* The value looked up by normalize_doi in the lowercased entry data.
RawDoi(entry) == DictGet(LowerKeys(entry, <<>>), K_doi, <<>>)

\* Mutant: lines 104-106 uncommented, every other lowercased field is kept.
StandardizeEntry_keepother(entry) ==
    LET data0 == LowerKeys(entry, <<>>)
        data1 == DictSet(data0, K_doi, normalize_doi(DictGet(data0, K_doi, <<>>)))
        data2 == EnsureFields(data1, essential_fields)
        data3 == Consolidate(data2)
        first == <<<<K_ID, DictGet(entry, K_ID, None)>>,
                   <<K_ENTRYTYPE, DictGet(entry, K_ENTRYTYPE, None)>>>>
                 \o [i \in 1..Len(essential_fields) |->
                       <<essential_fields[i],
                         DictGet(data3, essential_fields[i], <<>>)>>]
    IN first \o SelectSeq(data3, LAMBDA kv : ~DictHas(first, kv[1]))

\* The body of the loop from line 76 to line 101: the final_entry built for
\* one raw entry that passed both guards.
StandardizeEntry(entry) ==
    LET data0 == LowerKeys(entry, <<>>)
        data1 == DictSet(data0, K_doi, normalize_doi(DictGet(data0, K_doi, <<>>)))
        data2 == EnsureFields(data1, essential_fields)
        data3 == Consolidate(data2)
    IN <<<<K_ID, DictGet(entry, K_ID, None)>>,
         <<K_ENTRYTYPE, DictGet(entry, K_ENTRYTYPE, None)>>>>
       \o [i \in 1..Len(essential_fields) |->
             <<essential_fields[i], DictGet(data3, essential_fields[i], <<>>)>>]

\* if not original_id or not original_entrytype
MissingIdOrType(entry) ==
    \/ ~Truthy(DictGet(entry, K_ID, None))
    \/ ~Truthy(DictGet(entry, K_ENTRYTYPE, None))

\* Mutant: break in place of continue.
StdSkipMissing_break ==
    /\ pc = "std_loop" /\ si <= Len(entries)
    /\ MissingIdOrType(entries[si])
    /\ log' = Append(log, Diag("missing_id_or_type", si))
    /\ si' = Len(entries) + 1
    /\ UNCHANGED <<pipeVars, pc, entries, processed_ids, standardized_entries,
                   standardized_db, normVars, dedupVars>>

\* lines 65-67: an entry without ID or ENTRYTYPE is logged and skipped
StdSkipMissing ==
    /\ pc = "std_loop" /\ si <= Len(entries)
    /\ MissingIdOrType(entries[si])
    /\ log' = Append(log, Diag("missing_id_or_type", si))
    /\ si' = si + 1
    /\ UNCHANGED <<pipeVars, pc, entries, processed_ids, standardized_entries,
                   standardized_db, normVars, dedupVars>>

\* lines 70-72: a later entry with an ID already standardized is logged and
\* skipped
StdSkipDuplicate ==
    /\ pc = "std_loop" /\ si <= Len(entries)
    /\ ~MissingIdOrType(entries[si])
    /\ DictGet(entries[si], K_ID, None) \in processed_ids
    /\ log' = Append(log, Diag("duplicate_id", si))
    /\ si' = si + 1
    /\ UNCHANGED <<pipeVars, pc, entries, processed_ids, standardized_entries,
                   standardized_db, normVars, dedupVars>>

\* Mutant: processed_ids.add(original_id) forgotten.
StdEmit_noremember ==
    /\ pc = "std_loop" /\ si <= Len(entries)
    /\ ~MissingIdOrType(entries[si])
    /\ DictGet(entries[si], K_ID, None) \notin processed_ids
    /\ log' = LogWith(log, NormalizeWarns(RawDoi(entries[si])),
                      Diag("doi_not_standard", si))
    /\ standardized_entries' =
           Append(standardized_entries, StandardizeEntry(entries[si]))
    /\ si' = si + 1
    /\ UNCHANGED <<pipeVars, pc, entries, processed_ids, standardized_db, normVars,
                   dedupVars>>

\* lines 73-108: the entry is recorded as processed, standardized and
\* appended
StdEmit ==
    /\ pc = "std_loop" /\ si <= Len(entries)
    /\ ~MissingIdOrType(entries[si])
    /\ DictGet(entries[si], K_ID, None) \notin processed_ids
    /\ processed_ids' = processed_ids \cup {DictGet(entries[si], K_ID, None)}
    /\ log' = LogWith(log, NormalizeWarns(RawDoi(entries[si])),
                      Diag("doi_not_standard", si))
    /\ standardized_entries' =
           Append(standardized_entries, StandardizeEntry(entries[si]))
    /\ si' = si + 1
    /\ UNCHANGED <<pipeVars, pc, entries, standardized_db, normVars, dedupVars>>

\* lines 115-126: after the loop the list is handed to the writer
StdWrite ==
    /\ pc = "std_loop" /\ si > Len(entries)
    /\ standardized_db' = standardized_entries
    /\ pc' = "std_done"
    /\ UNCHANGED <<pipeVars, log, entries, si, processed_ids, standardized_entries,
                   normVars, dedupVars>>

NextStd == StdSkipMissing \/ StdSkipDuplicate \/ StdEmit \/ StdWrite

----------------------------------------------------------------------------
(* The batches standardize_bibtex_file is run on *)

\* Bound: entries after the first of a batch.
MaxMore == 2

V_article == <<"a","r","t","i","c","l","e">>
V_J == <<"F","o","r","e","s","t","s">>
V_B == <<"P","r","o","c","."," ","A","E","C","E">>
V_T == <<"A"," ","T","i","t","l","e">>
V_url == <<"h","t","t","p","s",":","/","/","d","o","i",".","o","r","g","/","1","0",".","1","2","3","4","/","E","X","A","M","P","L","E",".","D","O","I">>
V_odd == <<" ","P","e","n","d","i","n","g"," ">>

\* A raw entry as the parser returns it; an id or type of None is a key the
\* entry does not have.
MkRaw(id, type, fields) ==
    fields
    \o (IF type = None THEN <<>> ELSE <<<<K_ENTRYTYPE, type>>>>)
    \o (IF id = None THEN <<>> ELSE <<<<K_ID, id>>>>)

JournalOpts ==
    { <<>>,
      << <<K_journal, <<>>>> >>,
      << <<K_journal, V_J>> >>,
      << <<<<"J","O","U","R","N","A","L">>, V_J>> >>,
      << <<<<"J","o","u","r","n","a","l">>, V_J>>, <<K_journal, <<>>>> >> }

BooktitleOpts ==
    { <<>>,
      << <<K_booktitle, <<>>>> >>,
      << <<<<"B","o","o","k","T","i","t","l","e">>, V_B>> >> }

DoiOpts ==
    { << <<<<"D","O","I">>, V_url>> >>,
      << <<K_doi, V_odd>> >> }

OtherOpts ==
    { <<>>,
      << <<<<"T","I","T","L","E">>, V_T>>, <<<<"I","S","S","N">>, <<"1">>>> >> }

\* Entries with an ID and a type, varying in the fields they carry.
FieldPool ==
    { MkRaw(<<"a">>, V_article, o \o b \o j \o d) :
        o \in OtherOpts, b \in BooktitleOpts, j \in JournalOpts, d \in DoiOpts }

F1 == << <<K_title, V_T>>, <<<<"D","O","I">>, V_url>> >>
F2 == << <<<<"B","o","o","k","T","i","t","l","e">>, V_B>> >>

\* Entries varying in ID and type: present, empty, absent, repeated.
GuardPool ==
    { MkRaw(<<"a">>, V_article, F1),
      MkRaw(<<"a">>, V_article, F2),
      MkRaw(<<"c">>, <<"m","i","s","c">>, F2),
      MkRaw(<<"b">>, None, F2),
      MkRaw(None, V_article, F1),
      MkRaw(<<>>, V_article, F2) }

RECURSIVE SeqsUpTo(_, _)
SeqsUpTo(S, n) ==
    IF n = 0 THEN {<<>>}
    ELSE LET shorter == SeqsUpTo(S, n - 1)
         IN shorter \cup {Append(s, e) : s \in shorter, e \in S}

StdBatches ==
    {<<>>} \cup { <<e>> \o more : e \in FieldPool \cup GuardPool,
                                  more \in SeqsUpTo(GuardPool, MaxMore) }

InitStd ==
    /\ pc = "std_loop"
    /\ log = <<>>
    /\ entries \in StdBatches
    /\ si = 1
    /\ processed_ids = {}
    /\ standardized_entries = <<>>
    /\ standardized_db = None
    /\ NormIdle /\ DedupIdle /\ PipeIdle

SpecStd == InitStd /\ [][NextStd]_vars

----------------------------------------------------------------------------
(* Claims about standardize_bibtex_file, checked under SpecStd *)

EntryId(e) == DictGet(e, K_ID, None)
EntryType(e) == DictGet(e, K_ENTRYTYPE, None)
HasId(e) == Truthy(EntryId(e))
HasType(e) == Truthy(EntryType(e))

\* Input positions whose entry has an identifier and a type tag and is the
\* first such entry with its identifier.
FirstTyped(i) ==
    /\ HasId(entries[i]) /\ HasType(entries[i])
    /\ \A h \in 1..(i - 1) :
         ~(HasId(entries[h]) /\ HasType(entries[h])
           /\ EntryId(entries[h]) = EntryId(entries[i]))

\* The input position the k-th canonical record was built from.
SourceOf(k) ==
    CHOOSE i \in 1..Len(entries) :
        FirstTyped(i) /\ Cardinality({h \in 1..i : FirstTyped(h)}) = k

\* The raw field of that name, looked up by lowercased field name (of
\* several, the last one read); None when the entry has none.
RawField(e, name) ==
    LET at == {i \in 1..Len(e) :
                 e[i][1] \notin {K_ID, K_ENTRYTYPE} /\ StrLower(e[i][1]) = name}
    IN IF at = {} THEN None ELSE e[SetMax(at)][2]

ElevenFields ==
    << <<"d","o","i">>, <<"t","i","t","l","e">>, <<"a","b","s","t","r","a","c","t">>, <<"k","e","y","w","o","r","d","s">>,
       <<"a","u","t","h","o","r">>, <<"y","e","a","r">>, <<"p","u","b","l","i","s","h","e","r">>,
       <<"j","o","u","r","n","a","l">>, <<"p","a","g","e","s">>, <<"v","o","l","u","m","e">>, <<"n","u","m","b","e","r">> >>

TwelveFields ==
    << <<"d","o","i">>, <<"t","i","t","l","e">>, <<"a","b","s","t","r","a","c","t">>, <<"k","e","y","w","o","r","d","s">>,
       <<"a","u","t","h","o","r">>, <<"y","e","a","r">>, <<"p","u","b","l","i","s","h","e","r">>,
       <<"j","o","u","r","n","a","l">>, <<"b","o","o","k","t","i","t","l","e">>, <<"p","a","g","e","s">>, <<"v","o","l","u","m","e">>, <<"n","u","m","b","e","r">> >>

\* C4 as stated: every canonical record is the identifier, the type tag and
\* exactly the eleven fields doi, title, abstract, keywords, author, year,
\* publisher, journal, pages, volume, number, in that order.
C4_ElevenFields ==
    \A k \in 1..Len(standardized_entries) :
        DictKeys(standardized_entries[k]) = <<K_ID, K_ENTRYTYPE>> \o ElevenFields

\* C4 amended: every canonical record is the identifier, the type tag and
\* exactly twelve fields - the eleven named and booktitle, which stands
\* between journal and pages - in that fixed order, with no other field,
\* whatever fields the raw record had.
C4_TwelveFields ==
    /\ \A k \in 1..Len(standardized_entries) :
         DictKeys(standardized_entries[k]) = <<K_ID, K_ENTRYTYPE>> \o TwelveFields
    /\ standardized_db # None =>
         \A k \in 1..Len(standardized_db) :
            DictKeys(standardized_db[k]) = <<K_ID, K_ENTRYTYPE>> \o TwelveFields

\* A raw entry with a field outside the twelve (ISSN) and without most of
\* them was standardized and written.
C4_Witness ==
    /\ pc = "std_done" /\ Len(standardized_db) >= 1
    /\ RawField(entries[1], <<"i","s","s","n">>) # None
    /\ RawField(entries[1], K_journal) = None
    /\ EntryId(standardized_db[1]) = EntryId(entries[1])

\* C5: no two canonical records have the same identifier; and when two raw
\* records with a type tag share an identifier, exactly one canonical record
\* has it, built from the first of them in input order.
C5_FirstWins ==
    pc = "std_done" =>
        /\ \A k, m \in 1..Len(standardized_db) :
             k # m => EntryId(standardized_db[k]) # EntryId(standardized_db[m])
        /\ \A i, j \in 1..Len(entries) :
             (/\ i < j /\ FirstTyped(i)
              /\ HasId(entries[j]) /\ HasType(entries[j])
              /\ EntryId(entries[j]) = EntryId(entries[i]))
             => /\ Cardinality({k \in 1..Len(standardized_db) :
                       EntryId(standardized_db[k]) = EntryId(entries[i])}) = 1
                /\ \E k \in 1..Len(standardized_db) :
                       standardized_db[k] = StandardizeEntry(entries[i])
                /\ StandardizeEntry(entries[j]) # StandardizeEntry(entries[i])
                     => \A k \in 1..Len(standardized_db) :
                           standardized_db[k] # StandardizeEntry(entries[j])

\* Two typed entries with one identifier and different fields were read, the
\* second was skipped with a diagnostic.
C5_Witness ==
    /\ pc = "std_done"
    /\ \E i, j \in 1..Len(entries) :
         /\ i < j /\ FirstTyped(i) /\ HasType(entries[j])
         /\ EntryId(entries[j]) = EntryId(entries[i])
         /\ StandardizeEntry(entries[j]) # StandardizeEntry(entries[i])
         /\ Diag("duplicate_id", j) \in Range(log)

\* The batch of C9: identifiers present and pairwise distinct, exactly one
\* entry without a type tag.
OneUntagged ==
    /\ \A i \in 1..Len(entries) : HasId(entries[i])
    /\ \A i, j \in 1..Len(entries) :
         i # j => EntryId(entries[i]) # EntryId(entries[j])
    /\ Cardinality({i \in 1..Len(entries) : ~HasType(entries[i])}) = 1

RECURSIVE MapStandardize(_)
MapStandardize(es) ==
    IF es = <<>> THEN <<>>
    ELSE <<StandardizeEntry(Head(es))>> \o MapStandardize(Tail(es))

\* C9: a record without identifier or type tag is skipped with a diagnostic
\* and the batch goes on: one canonical record is written per first typed
\* record.  A batch of n records with pairwise distinct identifiers, exactly
\* one of them without a type tag, yields n-1 canonical records: the
\* canonical forms of the others in input order.
C9_SkipOneKeepRest ==
    pc = "std_done" =>
        /\ \A i \in 1..Len(entries) :
             (~HasId(entries[i]) \/ ~HasType(entries[i]))
             => Diag("missing_id_or_type", i) \in Range(log)
        /\ Len(standardized_db) =
             Cardinality({i \in 1..Len(entries) : FirstTyped(i)})
        /\ OneUntagged =>
             /\ Len(standardized_db) = Len(entries) - 1
             /\ standardized_db = MapStandardize(SelectSeq(entries, HasType))

\* Three records, the untagged one not last: the records after it were
\* standardized.
C9_Witness ==
    /\ pc = "std_done" /\ OneUntagged
    /\ Len(entries) = 3 /\ HasType(entries[3])
    /\ Len(standardized_db) = 2

CanonJournal(rec) == DictGet(rec, K_journal, None)

\* C10: in every canonical record, when the raw journal (by lowercased field
\* name) is absent or empty and the raw booktitle is non-empty, journal is
\* the booktitle value; when the raw journal is non-empty, journal is the
\* raw journal value.
C10_JournalFallback ==
    \A k \in 1..Len(standardized_entries) :
        LET raw == entries[SourceOf(k)]
            rj == RawField(raw, K_journal)
            rb == RawField(raw, K_booktitle)
        IN /\ (~Truthy(rj) /\ Truthy(rb)) => CanonJournal(standardized_entries[k]) = rb
           /\ Truthy(rj) => CanonJournal(standardized_entries[k]) = rj

\* Both cases happened: a record without journal took its booktitle, and a
\* record with both kept its journal.
C10_Witness ==
    /\ pc = "std_done"
    /\ \E k \in 1..Len(standardized_db) :
         /\ ~Truthy(RawField(entries[SourceOf(k)], K_journal))
         /\ RawField(entries[SourceOf(k)], K_booktitle) = V_B
         /\ CanonJournal(standardized_db[k]) = V_B
    /\ \E k \in 1..Len(standardized_db) :
         /\ RawField(entries[SourceOf(k)], K_journal) = V_J
         /\ CanonJournal(standardized_db[k]) = V_J

----------------------------------------------------------------------------
(* remove_duplicates_by_doi: the loop over db_y.entries, then over         *)
(* db_x.entries                                                            *)

\* Mutant: .strip() forgotten.
StoredDoi_nostrip(entry) == DictGet(entry, K_doi, <<>>)

\* entry.get('doi', '').strip()
StoredDoi(entry) == StrStrip(DictGet(entry, K_doi, <<>>))

\* Mutant: and in place of or.
KeepsX_and(doi_x, dois) == Truthy(doi_x) /\ doi_x \notin dois

\* if not doi_x or doi_x not in dois_y
KeepsX(doi_x, dois) == ~Truthy(doi_x) \/ doi_x \notin dois

\* lines 162-166: the DOI of one entry of Y is added to dois_y unless empty
DedupCollectY ==
    /\ pc = "dd_collect_y" /\ yi <= Len(db_y)
    /\ dois_y' = IF Truthy(StoredDoi(db_y[yi]))
                 THEN dois_y \cup {StoredDoi(db_y[yi])}
                 ELSE dois_y
    /\ yi' = yi + 1
    /\ UNCHANGED <<pipeVars, pc, log, db_x, db_y, xi, processed_ids_x, unique_entries_x,
                   removed_count, final_db, normVars, stdVars>>

\* lines 167-172: the loop over Y is done, the filter of X starts
DedupStartFilter ==
    /\ pc = "dd_collect_y" /\ yi > Len(db_y)
    /\ pc' = "dd_filter_x"
    /\ xi' = 1
    /\ UNCHANGED <<pipeVars, log, db_x, db_y, yi, dois_y, processed_ids_x,
                   unique_entries_x, removed_count, final_db, normVars,
                   stdVars>>

\* lines 175-178: a later entry of X with an ID already seen is logged and
\* skipped
DedupSkipDuplicate ==
    /\ pc = "dd_filter_x" /\ xi <= Len(db_x)
    /\ DictGet(db_x[xi], K_ID, None) \in processed_ids_x
    /\ log' = Append(log, Diag("duplicate_id", xi))
    /\ xi' = xi + 1
    /\ UNCHANGED <<pipeVars, pc, db_x, db_y, yi, dois_y, processed_ids_x,
                   unique_entries_x, removed_count, final_db, normVars,
                   stdVars>>

\* Mutant: the entry kept is put first.
DedupKeep_prepend ==
    /\ pc = "dd_filter_x" /\ xi <= Len(db_x)
    /\ DictGet(db_x[xi], K_ID, None) \notin processed_ids_x
    /\ KeepsX(StoredDoi(db_x[xi]), dois_y)
    /\ processed_ids_x' = processed_ids_x \cup {DictGet(db_x[xi], K_ID, None)}
    /\ unique_entries_x' = <<db_x[xi]>> \o unique_entries_x
    /\ xi' = xi + 1
    /\ UNCHANGED <<pipeVars, pc, log, db_x, db_y, yi, dois_y, removed_count, final_db,
                   normVars, stdVars>>

\* lines 179-185: an entry without DOI, or whose DOI is not in dois_y, is kept
DedupKeep ==
    /\ pc = "dd_filter_x" /\ xi <= Len(db_x)
    /\ DictGet(db_x[xi], K_ID, None) \notin processed_ids_x
    /\ KeepsX(StoredDoi(db_x[xi]), dois_y)
    /\ processed_ids_x' = processed_ids_x \cup {DictGet(db_x[xi], K_ID, None)}
    /\ unique_entries_x' = Append(unique_entries_x, db_x[xi])
    /\ xi' = xi + 1
    /\ UNCHANGED <<pipeVars, pc, log, db_x, db_y, yi, dois_y, removed_count, final_db,
                   normVars, stdVars>>

\* lines 179-188: an entry whose DOI is in dois_y is counted and logged
DedupRemove ==
    /\ pc = "dd_filter_x" /\ xi <= Len(db_x)
    /\ DictGet(db_x[xi], K_ID, None) \notin processed_ids_x
    /\ ~KeepsX(StoredDoi(db_x[xi]), dois_y)
    /\ processed_ids_x' = processed_ids_x \cup {DictGet(db_x[xi], K_ID, None)}
    /\ removed_count' = removed_count + 1
    /\ log' = Append(log, Diag("removed", xi))
    /\ xi' = xi + 1
    /\ UNCHANGED <<pipeVars, pc, db_x, db_y, yi, dois_y, unique_entries_x, final_db,
                   normVars, stdVars>>

\* lines 193-200: after the loop the entries kept are handed to the writer
DedupWrite ==
    /\ pc = "dd_filter_x" /\ xi > Len(db_x)
    /\ final_db' = unique_entries_x
    /\ pc' = "dd_done"
    /\ UNCHANGED <<pipeVars, log, db_x, db_y, yi, xi, dois_y, processed_ids_x,
                   unique_entries_x, removed_count, normVars, stdVars>>

NextDedup ==
    \/ DedupCollectY \/ DedupStartFilter
    \/ DedupSkipDuplicate \/ DedupKeep \/ DedupRemove \/ DedupWrite

----------------------------------------------------------------------------
(* The files remove_duplicates_by_doi is run on *)

\* Bounds: entries of file X, entries of file Y.
MaxX == 3
MaxY == 1

V_doi == <<"1","0",".","1","2","3","4","/","e","x","a","m","p","l","e",".","d","o","i">>
V_padded == <<" ">> \o V_doi \o <<" ">>

\* An entry as loaded from a file; a doi of None is a field the entry does
\* not have.
MkEntry(id, doi) ==
    (IF doi = None THEN <<>> ELSE <<<<K_doi, doi>>>>)
    \o <<<<K_ENTRYTYPE, V_article>>, <<K_ID, id>>>>

XPool ==
    { MkEntry(<<"a">>, None), MkEntry(<<"a">>, V_doi), MkEntry(<<"d">>, V_url),
      MkEntry(<<"c">>, <<>>), MkEntry(<<"c">>, V_padded) }

\* Among the DOIs of Y: the resolver URL as a source gives it, and what
\* standardization stores for it.
YPool ==
    { MkEntry(<<"b">>, <<" ">>), MkEntry(<<"b">>, V_url),
      MkEntry(<<"b">>, normalize_doi(V_url)), MkEntry(<<"b">>, V_padded) }

InitDedup ==
    /\ pc = "dd_collect_y"
    /\ log = <<>>
    /\ db_x \in SeqsUpTo(XPool, MaxX)
    /\ db_y \in SeqsUpTo(YPool, MaxY)
    /\ yi = 1 /\ xi = 0
    /\ dois_y = {} /\ processed_ids_x = {}
    /\ unique_entries_x = <<>> /\ removed_count = 0
    /\ final_db = None
    /\ NormIdle /\ StdIdle /\ PipeIdle

SpecDedup == InitDedup /\ [][NextDedup]_vars

----------------------------------------------------------------------------
(* Claims about remove_duplicates_by_doi, checked under SpecDedup *)

\* The normalized identifier of a record of a record set: its doi field as
\* stored, without surrounding whitespace; empty when it has none.
NormalizedId(e) == StrStrip(DictGet(e, K_doi, <<>>))

\* The non-empty normalized identifiers of y.
IdsOf(y) == {NormalizedId(y[j]) : j \in 1..Len(y)} \ {<<>>}

\* The entries of s at the positions in I, in the order of s.
SubseqAt(s, I) ==
    LET F[n \in 0..Len(s)] ==
            IF n = 0 THEN <<>>
            ELSE IF n \in I THEN Append(F[n - 1], s[n]) ELSE F[n - 1]
    IN F[Len(s)]

FirstOfItsId(x, i) ==
    \A h \in 1..(i - 1) : DictGet(x[h], K_ID, None) # DictGet(x[i], K_ID, None)

\* What standardization leaves in the doi field: a value normalize_doi maps
\* to itself.
DoiStandardized(e) ==
    DictGet(e, K_doi, <<>>) = normalize_doi(DictGet(e, K_doi, <<>>))

\* C1: a record of x that is the first with its ID is kept if and only if
\* its normalized identifier is empty or is not among the non-empty
\* normalized identifiers of y, and every other record is dropped; so no
\* record of the output has a non-empty identifier that occurs in y, and an
\* empty identifier in y drops nothing.  On record sets whose doi fields are
\* standardized the same holds with normalize_doi as the normalization.
C1_KeptIffNotInY ==
    pc = "dd_done" =>
        /\ final_db =
             SubseqAt(db_x, {i \in 1..Len(db_x) :
                 /\ FirstOfItsId(db_x, i)
                 /\ \/ NormalizedId(db_x[i]) = <<>>
                    \/ NormalizedId(db_x[i]) \notin IdsOf(db_y)})
        /\ \A k \in 1..Len(final_db) :
             \/ NormalizedId(final_db[k]) = <<>>
             \/ \A j \in 1..Len(db_y) :
                  NormalizedId(db_y[j]) # NormalizedId(final_db[k])
        /\ (\A i \in 1..Len(db_x) : DoiStandardized(db_x[i]))
           /\ (\A j \in 1..Len(db_y) : DoiStandardized(db_y[j]))
           => final_db =
                SubseqAt(db_x, {i \in 1..Len(db_x) :
                    /\ FirstOfItsId(db_x, i)
                    /\ LET nx == normalize_doi(DictGet(db_x[i], K_doi, <<>>))
                       IN \/ nx = <<>>
                          \/ \A j \in 1..Len(db_y) :
                               normalize_doi(DictGet(db_y[j], K_doi, <<>>)) # nx})

\* A record of x was dropped for an identifier y stores with surrounding
\* whitespace, and a record without identifier was kept.
C1_Witness ==
    /\ pc = "dd_done" /\ removed_count >= 1 /\ Len(final_db) >= 1
    /\ Len(db_y) >= 1 /\ DictGet(db_y[1], K_doi, <<>>) = V_padded
    /\ NormalizedId(final_db[1]) = <<>>

AllIdsEmpty(x) == \A i \in 1..Len(x) : NormalizedId(x[i]) = <<>>

\* C6 as stated: when every record of X has an empty normalized identifier,
\* deduplicate(X, Y) is X.
C6_EmptyIdsUnchanged ==
    (pc = "dd_done" /\ AllIdsEmpty(db_x)) => final_db = db_x

\* C6 amended: when every record of X has an empty normalized identifier
\* and no two records of X have the same ID, deduplicate(X, Y) is X: same
\* length, same records, same order.
C6_EmptyDistinctIdsUnchanged ==
    (/\ pc = "dd_done" /\ AllIdsEmpty(db_x)
     /\ \A i \in 1..Len(db_x) : FirstOfItsId(db_x, i))
    => final_db = db_x

\* Two records without identifier and with different IDs were filtered
\* against a non-empty Y and are both in the output.
C6_Witness ==
    /\ pc = "dd_done" /\ AllIdsEmpty(db_x)
    /\ Len(db_x) = 2 /\ FirstOfItsId(db_x, 2)
    /\ Len(db_y) >= 1 /\ dois_y # {}
    /\ final_db = db_x

\* C7: the entries kept are, at every step and in the output, a subsequence
\* of X: records of X with every field as in X, in the order of X.
C7_Subsequence ==
    /\ \E I \in SUBSET (1..Len(db_x)) : unique_entries_x = SubseqAt(db_x, I)
    /\ final_db # None =>
         \E I \in SUBSET (1..Len(db_x)) : final_db = SubseqAt(db_x, I)

\* Of three records the second was dropped; the two different records kept
\* are in the order of X.
C7_Witness ==
    /\ pc = "dd_done" /\ Len(db_x) = 3 /\ removed_count = 1
    /\ final_db = <<db_x[1], db_x[3]>> /\ db_x[1] # db_x[3]

ScenarioX == <<MkEntry(<<"a">>, V_doi)>>
ScenarioY == <<MkEntry(<<"b">>, V_url)>>
ScenarioYStandardized == <<MkEntry(<<"b">>, normalize_doi(V_url))>>

\* C8 as stated: for X = [{id:'a', doi:'10.1234/example.doi'}] and
\* Y = [{id:'b', doi:'https://doi.org/10.1234/EXAMPLE.DOI'}] the output is
\* empty.
C8_UrlUppercaseMatches ==
    (pc = "dd_done" /\ db_x = ScenarioX /\ db_y = ScenarioY) => final_db = <<>>

\* C8 amended: deduplication compares the doi fields as stored, trimmed and
\* not normalized again: with that Y the record of X is kept; with the doi
\* of Y normalized first, as standardize_bibtex_file stores it
\* (normalize_doi of the URL), the output is empty.
C8_MatchesAfterStandardization ==
    (pc = "dd_done" /\ db_x = ScenarioX) =>
        /\ db_y = ScenarioY => final_db = ScenarioX
        /\ db_y = ScenarioYStandardized => final_db = <<>>

\* The scenario with Y standardized was run and removed the record of X.
C8_Witness ==
    /\ pc = "dd_done" /\ db_x = ScenarioX /\ db_y = ScenarioYStandardized
    /\ removed_count = 1 /\ final_db = <<>>

----------------------------------------------------------------------------
(* The three functions as whole calls: what each computes from the entries  *)
(* it loaded                                                               *)

\* The loop of standardize_bibtex_file over entries es from position i:
\* the list built and the diagnostics logged.
RECURSIVE StdLoop(_, _, _, _, _)
StdLoop(es, i, ids, out, lg) ==
    IF i > Len(es) THEN [out |-> out, log |-> lg]
    ELSE IF MissingIdOrType(es[i])
    THEN StdLoop(es, i + 1, ids, out, Append(lg, Diag("missing_id_or_type", i)))
    ELSE IF DictGet(es[i], K_ID, None) \in ids
    THEN StdLoop(es, i + 1, ids, out, Append(lg, Diag("duplicate_id", i)))
    ELSE StdLoop(es, i + 1, ids \cup {DictGet(es[i], K_ID, None)},
                 Append(out, StandardizeEntry(es[i])),
                 LogWith(lg, NormalizeWarns(RawDoi(es[i])),
                         Diag("doi_not_standard", i)))

\* The first loop of remove_duplicates_by_doi: dois_y.
DoisOf(y) == {StoredDoi(y[j]) : j \in 1..Len(y)} \ {<<>>}

\* The second loop of remove_duplicates_by_doi over x from position i.
RECURSIVE DedupLoop(_, _, _, _, _, _)
DedupLoop(x, dois, i, ids, out, lg) ==
    IF i > Len(x) THEN [out |-> out, log |-> lg]
    ELSE IF DictGet(x[i], K_ID, None) \in ids
    THEN DedupLoop(x, dois, i + 1, ids, out, Append(lg, Diag("duplicate_id", i)))
    ELSE IF KeepsX(StoredDoi(x[i]), dois)
    THEN DedupLoop(x, dois, i + 1, ids \cup {DictGet(x[i], K_ID, None)},
                   Append(out, x[i]), lg)
    ELSE DedupLoop(x, dois, i + 1, ids \cup {DictGet(x[i], K_ID, None)},
                   out, Append(lg, Diag("removed", i)))

\* str.splitlines(): "\r\n" is one boundary, a final boundary ends the last
\* line and starts no other.
RECURSIVE SplitLines(_, _, _, _)
SplitLines(s, i, cur, acc) ==
    IF i > Len(s) THEN (IF cur = <<>> THEN acc ELSE Append(acc, cur))
    ELSE IF s[i] = "\r" /\ i < Len(s) /\ s[i + 1] = "\n"
    THEN SplitLines(s, i + 2, <<>>, Append(acc, cur))
    ELSE IF s[i] \in {"\n", "\r", "\f"}
    THEN SplitLines(s, i + 1, <<>>, Append(acc, cur))
    ELSE SplitLines(s, i + 1, Append(cur, s[i]), acc)

\* ' '.join(lines)
RECURSIVE JoinSpace(_)
JoinSpace(lines) ==
    IF lines = <<>> THEN <<>>
    ELSE IF Len(lines) = 1 THEN lines[1]
    ELSE lines[1] \o <<" ">> \o JoinSpace(Tail(lines))

\* ' '.join(value.splitlines()).strip()
CsvClean(v) == StrStrip(JoinSpace(SplitLines(v, 1, <<>>, <<>>)))

H_classification == <<"c","l","a","s","s","i","f","i","c","a","t","i","o","n">>
H_Review == <<"R","e","v","i","e","w">>
H_Publisher == <<"P","u","b","l","i","s","h","e","r">>
H_type_title == <<"t","y","p","e"," ","t","i","t","l","e">>

\* row_data of convert_bibtex_to_csv for one entry, cleaned.
CsvRow(e) ==
    << <<K_ID, CsvClean(DictGet(e, K_ID, <<>>))>>,
       <<K_doi, CsvClean(DictGet(e, K_doi, <<>>))>>,
       <<H_classification, <<>>>>,
       <<K_title, CsvClean(DictGet(e, K_title, <<>>))>>,
       <<K_abstract, CsvClean(DictGet(e, K_abstract, <<>>))>>,
       <<K_keywords, CsvClean(DictGet(e, K_keywords, <<>>))>>,
       <<H_Review, <<>>>>,
       <<K_author, CsvClean(DictGet(e, K_author, <<>>))>>,
       <<K_year, CsvClean(DictGet(e, K_year, <<>>))>>,
       <<H_Publisher, CsvClean(DictGet(e, K_publisher, <<>>))>>,
       <<K_journal, CsvClean(DictGet(e, K_journal, <<>>))>>,
       <<H_type_title, CsvClean(StrLower(DictGet(e, K_ENTRYTYPE, <<>>)))>> >>

CsvRows(es) == [i \in 1..Len(es) |-> CsvRow(es[i])]

----------------------------------------------------------------------------
(* The main flow: the seven calls of the example of use, over files. The   *)
(* file system belongs to the environment: when the first call begins a    *)
(* path may hold BibTeX text, be absent, or be there and not be readable.   *)

File(kind, data) == [kind |-> kind, data |-> data]
Missing == File("missing", <<>>)
Unreadable == File("unreadable", <<>>)

InputPaths == {"ieee_input", "scidirect_input", "mdpi_input"}
BibOutputs ==
    {"ieee_standardized", "scidirect_standardized", "mdpi_standardized",
     "processed_scidirect_unique_vs_ieee", "processed_mdpi_unique_vs_ieee"}
CsvOutputs == {"csv_output_scidirect", "csv_output_mdpi"}
Paths == InputPaths \cup BibOutputs \cup CsvOutputs

Call(op, x, y, out) == [op |-> op, x |-> x, y |-> y, out |-> out]

\* The calls of lines 358-388, in order.
Stages ==
    << Call("standardize", "ieee_input", "", "ieee_standardized"),
       Call("standardize", "scidirect_input", "", "scidirect_standardized"),
       Call("standardize", "mdpi_input", "", "mdpi_standardized"),
       Call("deduplicate", "scidirect_standardized", "ieee_standardized",
            "processed_scidirect_unique_vs_ieee"),
       Call("deduplicate", "mdpi_standardized", "ieee_standardized",
            "processed_mdpi_unique_vs_ieee"),
       Call("to_csv", "processed_scidirect_unique_vs_ieee", "",
            "csv_output_scidirect"),
       Call("to_csv", "processed_mdpi_unique_vs_ieee", "",
            "csv_output_mdpi") >>
NStages == Len(Stages)

\* The call at hand is a call of op.
AtCall(op) == pc = "main" /\ stage <= NStages /\ Stages[stage].op = op

\* open() and bibtexparser.load succeed on a path that holds BibTeX text;
\* a missing path raises FileNotFoundError, an unreadable one an Exception.
Loads(path) == files[path].kind = "bib"

LoadErrors(k, paths) ==
    LET F[n \in 0..Len(paths)] ==
            IF n = 0 THEN <<>>
            ELSE IF Loads(paths[n]) THEN F[n - 1]
            ELSE Append(F[n - 1],
                        Diag(IF files[paths[n]].kind = "missing"
                             THEN "not_found" ELSE "read_error", k))
    IN F[Len(paths)]

\* The orders in which the library may lay out the entries handed to it.
Orders(s) ==
    { [i \in 1..Len(s) |-> s[f[i]]] :
        f \in {g \in [1..Len(s) -> 1..Len(s)] :
                 \A a, b \in 1..Len(s) : g[a] = g[b] => a = b} }

\* with open(path, 'w') as f: f.write(...): the path now holds data, or the
\* open fails, the error is logged and nothing changes.
Written(path, kind, data, k, lg) ==
    IF path \in unwritable
    THEN /\ files' = files
         /\ log' = log \o lg \o <<Diag("write_error", k)>>
    ELSE /\ \E d \in (IF kind = "bib" THEN Orders(data) ELSE {data}) :
              files' = [files EXCEPT ![path] = File(kind, d)]
         /\ log' = log \o lg \o <<Diag("saved", k)>>

\* Mutant: the exception of the failed read is not caught and ends the flow.
StageStdAbort_raises ==
    /\ AtCall("standardize") /\ ~Loads(Stages[stage].x)
    /\ log' = log \o <<Diag("start", stage)>>
    /\ pc' = "main_crashed"
    /\ UNCHANGED <<files, unwritable, stage, normVars, stdVars, dedupVars>>

\* lines 38-54: standardize_bibtex_file cannot read its input, logs the
\* error and returns
StageStdAbort ==
    /\ AtCall("standardize") /\ ~Loads(Stages[stage].x)
    /\ log' = log \o <<Diag("start", stage)>>
                  \o LoadErrors(stage, <<Stages[stage].x>>)
    /\ stage' = stage + 1
    /\ UNCHANGED <<pc, files, unwritable, normVars, stdVars, dedupVars>>

\* lines 38-128: standardize_bibtex_file reads, standardizes and writes
StageStd ==
    /\ AtCall("standardize") /\ Loads(Stages[stage].x)
    /\ LET r == StdLoop(files[Stages[stage].x].data, 1, {}, <<>>, <<>>)
       IN Written(Stages[stage].out, "bib", r.out, stage,
                  <<Diag("start", stage)>> \o r.log)
    /\ stage' = stage + 1
    /\ UNCHANGED <<pc, unwritable, normVars, stdVars, dedupVars>>

\* lines 137-158: remove_duplicates_by_doi cannot read one of its inputs,
\* logs the errors and returns
StageDedupAbort ==
    /\ AtCall("deduplicate")
    /\ ~Loads(Stages[stage].x) \/ ~Loads(Stages[stage].y)
    /\ log' = log \o <<Diag("start", stage)>>
                  \o LoadErrors(stage, <<Stages[stage].x, Stages[stage].y>>)
                  \o <<Diag("aborted", stage)>>
    /\ stage' = stage + 1
    /\ UNCHANGED <<pc, files, unwritable, normVars, stdVars, dedupVars>>

\* lines 137-203: remove_duplicates_by_doi reads both files, filters X and
\* writes
StageDedup ==
    /\ AtCall("deduplicate")
    /\ Loads(Stages[stage].x) /\ Loads(Stages[stage].y)
    /\ LET r == DedupLoop(files[Stages[stage].x].data,
                          DoisOf(files[Stages[stage].y].data), 1, {}, <<>>, <<>>)
       IN Written(Stages[stage].out, "bib", r.out, stage,
                  <<Diag("start", stage)>> \o r.log)
    /\ stage' = stage + 1
    /\ UNCHANGED <<pc, unwritable, normVars, stdVars, dedupVars>>

\* lines 210-223: convert_bibtex_to_csv cannot read its input, logs the
\* error and returns
StageCsvAbort ==
    /\ AtCall("to_csv") /\ ~Loads(Stages[stage].x)
    /\ log' = log \o <<Diag("start", stage)>>
                  \o LoadErrors(stage, <<Stages[stage].x>>)
    /\ stage' = stage + 1
    /\ UNCHANGED <<pc, files, unwritable, normVars, stdVars, dedupVars>>

\* lines 210-263: convert_bibtex_to_csv reads and writes one row per entry
StageCsv ==
    /\ AtCall("to_csv") /\ Loads(Stages[stage].x)
    /\ Written(Stages[stage].out, "csv", CsvRows(files[Stages[stage].x].data),
               stage, <<Diag("start", stage)>>)
    /\ stage' = stage + 1
    /\ UNCHANGED <<pc, unwritable, normVars, stdVars, dedupVars>>

\* line 391: the flow is over
MainDone ==
    /\ pc = "main" /\ stage > NStages
    /\ pc' = "main_done"
    /\ log' = Append(log, Diag("done", stage))
    /\ UNCHANGED <<files, unwritable, stage, normVars, stdVars, dedupVars>>

NextPipe ==
    \/ StageStdAbort \/ StageStd
    \/ StageDedupAbort \/ StageDedup
    \/ StageCsvAbort \/ StageCsv
    \/ MainDone

\* Bound: entries of an input file.
MaxFileEntries == 1

\* The entries of the input files: one with a DOI given as a URL, one with
\* a booktitle and no DOI.
PipePool == { MkRaw(<<"a">>, V_article, F1), MkRaw(<<"c">>, V_article, F2) }

InputContents ==
    {Missing, Unreadable}
    \cup {File("bib", es) : es \in SeqsUpTo(PipePool, MaxFileEntries)}

\* What an output path may hold from an earlier run.
StaleBib == File("bib", <<StandardizeEntry(MkRaw(<<"a">>, V_article, F1))>>)
StaleCsv == File("csv", <<>>)

\* Output paths that cannot be written: none, or one of these.
WriteFaults == {{}, {"ieee_standardized"}, {"csv_output_scidirect"}}

InitPipe ==
    /\ pc = "main"
    /\ log = <<>>
    /\ stage = 1
    /\ unwritable \in WriteFaults
    /\ \E ins \in [InputPaths -> InputContents], stale \in BOOLEAN :
         files = [p \in Paths |->
                    IF p \in InputPaths THEN ins[p]
                    ELSE IF p \in BibOutputs
                    THEN (IF stale THEN StaleBib ELSE Missing)
                    ELSE (IF stale THEN StaleCsv ELSE Missing)]
    /\ NormIdle /\ StdIdle /\ DedupIdle

SpecPipe == InitPipe /\ [][NextPipe]_vars

----------------------------------------------------------------------------
(* Failure of a read in the main flow *)

\* The files the call k reads.
InputsOf(k) ==
    IF Stages[k].op = "deduplicate" THEN {Stages[k].x, Stages[k].y}
    ELSE {Stages[k].x}

\* The call at hand is one of standardize_bibtex_file or
\* remove_duplicates_by_doi and one of its inputs cannot be read.
ReadFails ==
    /\ pc = "main" /\ stage <= NStages
    /\ Stages[stage].op \in {"standardize", "deduplicate"}
    /\ \E p \in InputsOf(stage) : ~Loads(p)

\* The calls that have been entered, by their first log line.
Started == {k \in 1..NStages : Diag("start", k) \in Range(log)}

\* The flow has neither stopped early nor skipped a call.
FlowGoesOn ==
    /\ pc \in {"main", "main_done"}
    /\ Started = 1..(stage - 1)
    /\ pc = "main_done" => Started = 1..NStages

\* C11: a call of standardize_bibtex_file whose input cannot be read, or of
\* remove_duplicates_by_doi one of whose two inputs cannot be read, returns
\* leaving every file as it was (its output is neither created nor modified,
\* nor is any other file), and the flow goes on with the next call: every
\* call of the main flow is entered, whatever failed before it.
C11_ReadFailureAbortsOnlyItself ==
    /\ [][ReadFails => /\ files' = files
                       /\ pc' = "main"
                       /\ stage' = stage + 1]_vars
    /\ []FlowGoesOn

\* The flow is over and every call was entered. The first call could not
\* read its input and its output was never created; the second and third
\* calls wrote theirs; both calls of remove_duplicates_by_doi then lacked the
\* first call's output and left theirs uncreated.
C11_Witness ==
    /\ pc = "main_done"
    /\ Started = 1..NStages
    /\ Diag("not_found", 1) \in Range(log)
    /\ files["ieee_standardized"] = Missing
    /\ Diag("saved", 2) \in Range(log)
    /\ files["scidirect_standardized"].kind = "bib"
    /\ Len(files["scidirect_standardized"].data) = 1
    /\ Diag("saved", 3) \in Range(log)
    /\ Diag("aborted", 4) \in Range(log)
    /\ files["processed_scidirect_unique_vs_ieee"] = Missing
    /\ Diag("aborted", 5) \in Range(log)
    /\ files["processed_mdpi_unique_vs_ieee"] = Missing

----------------------------------------------------------------------------
(* The whole model: one of the three operations run once, or the main flow *)

Init == InitNorm \/ InitStd \/ InitDedup \/ InitPipe

Next == NextNorm \/ NextStd \/ NextDedup \/ NextPipe

Spec == Init /\ [][Next]_vars

====
